---- MODULE Spec2Model ----
(***************************************************************************)
(* Pathfinding core of the isometric room client.                          *)
(*                                                                         *)
(* Two Pathfinder classes are modelled:                                    *)
(*   - the tilemap Pathfinder (findPath(start, goal, isRecalculating)),    *)
(*     which searches a Tilemap grid with a CubeCollection of obstacles;   *)
(*   - the grid Pathfinder (findPath(start, goal)), which searches a bare  *)
(*     number[][] grid with the array-backed PriorityQueue.                *)
(*                                                                         *)
(* Numbers: costs are JavaScript doubles in the source.  They are kept     *)
(* here in fixed point, in thousandths (HORIZONTAL_VERTICAL_COST = 1.0 is  *)
(* 1000, DIAGONAL_COST = sqrt(2) is 1414); Math.hypot is the integer       *)
(* square root of the squared distance scaled to thousandths.  NaN and     *)
(* undefined are kept as two reserved values with JavaScript's comparison  *)
(* rules (NaN compares false with everything, itself included).            *)
(***************************************************************************)
EXTENDS Integers, Sequences, FiniteSets, TLC

(***************************************************************************)
(* Bounds of the explored inputs.                                          *)
(***************************************************************************)
MaxFeatures == 2
MaxElevation == 2
MaxOpenSize == 5
MaxIterations == 12

\* enqueue calls made on the PriorityQueue under test
MaxEnqueues == 5

\* calculatePath calls that obtain a path, and waypoints of such a path
MaxCalls == 2
MaxPathLength == 3

(***************************************************************************)
(* Program constants.                                                      *)
(***************************************************************************)
TILE_WIDTH == 64
TILE_HEIGHT == 32
TILE_THICKNESS == 5
AVATAR_WIDTH == 20
AVATAR_HEIGHT == 60
AVATAR_OFFSETS == [x |-> TILE_WIDTH \div 2 - AVATAR_WIDTH, y |-> TILE_HEIGHT \div 2]
HORIZONTAL_VERTICAL_COST == 1000
DIAGONAL_COST == 1414
NARROW_CUBE_SIZE == 16
WIDE_CUBE_SIZE == 32

\* grid value of a cell without a tile
Absent == -1
\* JavaScript undefined (the value of grid[x]?.[y] outside a row)
Undefined == -888888
\* JavaScript NaN (undefined * number, hypot of NaN, NaN + number)
NaN == -999999
\* a null node / cube reference
NullRef == 0

\* the grid of the Pathfinder test
TEST_GRID ==
    << <<0, 1, 0, 0, 0>>,
       <<0, -1, 0, -1, 0>>,
       <<0, 1, 0, 0, 0>>,
       <<0, 0, 0, -1, 0>>,
       <<0, 0, 0, 1, 0>> >>

\* a grid with a wall between its first and its last row
WALL_GRID ==
    << <<0, 0, 0, 0>>,
       <<0, -1, -1, -1>>,
       <<0, 0, 0, 0>> >>

\* a grid whose last tile is cut off from the others
ISLAND_GRID ==
    << <<0, 0, -1, 0>>,
       <<0, 0, -1, -1>> >>

\* the fully open grid of n rows and n columns, elevation 0 everywhere
OpenGrid(n) == [x \in 1..n |-> [y \in 1..n |-> 0]]

(***************************************************************************)
(* Numbers.                                                                *)
(***************************************************************************)
Abs(n) == IF n < 0 THEN -n ELSE n

MaxOf(S) == CHOOSE m \in S : \A n \in S : n <= m

RECURSIVE SqrtSearch(_, _, _)
SqrtSearch(v, lo, hi) ==
    IF lo >= hi THEN lo
    ELSE LET mid == (lo + hi + 1) \div 2
         IN IF mid * mid <= v THEN SqrtSearch(v, mid, hi)
            ELSE SqrtSearch(v, lo, mid - 1)

\* Math.hypot(dx, dy, dz) in thousandths; NaN when a component is NaN
Hypot(dx, dy, dz) ==
    IF dx = NaN \/ dy = NaN \/ dz = NaN THEN NaN
    ELSE SqrtSearch((dx * dx + dy * dy + dz * dz)
                        * HORIZONTAL_VERTICAL_COST * HORIZONTAL_VERTICAL_COST,
                    0, 30000)

\* a - b on doubles
NumSub(a, b) == IF a = NaN \/ b = NaN \/ a = Undefined \/ b = Undefined
                THEN NaN ELSE a - b

\* a + b on doubles
NumAdd(a, b) == IF a = NaN \/ b = NaN \/ a = Undefined \/ b = Undefined
                THEN NaN ELSE a + b

\* a < b on doubles
NumLess(a, b) == a # NaN /\ b # NaN /\ a < b

(***************************************************************************)
(* Point3D.                                                                *)
(***************************************************************************)
Point3D(x, y, z) == [x |-> x, y |-> y, z |-> z]

\* Point3D.equals: strict equality of the three components
Equals(p, q) ==
    /\ p.x = q.x
    /\ p.y = q.y
    /\ p.z = q.z
    /\ p.z # NaN

\* Point3D.distanceTo
distanceTo(p, q) == Hypot(p.x - q.x, p.y - q.y, NumSub(p.z, q.z))

cartesianToIsometric(p) ==
    Point3D((p.x - p.y) * (TILE_WIDTH \div 2),
            (p.x + p.y) * (TILE_HEIGHT \div 2),
            IF p.z = Undefined THEN NaN ELSE p.z * TILE_HEIGHT)

(***************************************************************************)
(* Grid and tile helpers.                                                  *)
(***************************************************************************)
\* grid[x]?.[y]
GridAt(g, x, y) ==
    IF x >= 0 /\ x < Len(g)
    THEN IF y >= 0 /\ y < Len(g[x + 1]) THEN g[x + 1][y + 1] ELSE Undefined
    ELSE Undefined

MaxRowLength(g) == MaxOf({Len(g[i]) : i \in 1..Len(g)})

isTilePositionInBounds(p, g) ==
    /\ p.x >= 0
    /\ p.y >= 0
    /\ p.x <= Len(g) - 1
    /\ p.y <= MaxRowLength(g) - 1

\* isValidTilePosition that does not compare the tile height with z
isValidTilePositionAnyHeight(p, g) ==
    /\ isTilePositionInBounds(p, g)
    /\ GridAt(g, p.x, p.y) \notin {Absent, Undefined}

isValidTilePosition(p, g) ==
    /\ isTilePositionInBounds(p, g)
    /\ LET tileHeight == GridAt(g, p.x, p.y)
       IN tileHeight # Absent /\ tileHeight = p.z

\* Tilemap.generate: one tile per cell whose value is not -1
TilePositions(g) ==
    {cartesianToIsometric(Point3D(x - 1, y - 1, g[x][y])) :
        <<x, y>> \in {c \in (1..Len(g)) \X (1..MaxRowLength(g)) :
                        c[2] <= Len(g[c[1]]) /\ g[c[1]][c[2]] # Absent}}

VARIABLES
    grid,            \* Tilemap.#grid / Pathfinder.#grid
    tiles,           \* Tilemap.#tiles, as the set of tile positions
    cubes,           \* CubeCollection.#cubes
    startPosition,   \* findPath argument
    goalPosition,    \* findPath argument
    isRecalculating, \* findPath argument
    pc,              \* "idle", "loop" (at the head of the while loop), "done"
    nodes,           \* the Node objects created by the call and kept alive
    openList,        \* the Heap<Node> of the tilemap Pathfinder (node references)
    queue,           \* PriorityQueue.#elements of the grid Pathfinder
    closedList,      \* the Set<Node> closedList (node references)
    closestNode,     \* the closestNode local of findPath
    iterations,      \* loop iterations run by the grid Pathfinder's call
    result,          \* the value returned by findPath
    previous,        \* the goal and the value returned by the caller's call before
    pops,            \* the node references openList.pop() returned, in order
    avatar,          \* the Avatar's movement fields and its pending moveTo calls
    queueCalls       \* the enqueue and dequeue calls made on a PriorityQueue

vars == <<grid, tiles, cubes, startPosition, goalPosition, isRecalculating, pc,
          nodes, openList, queue, closedList, closestNode, iterations, result,
          previous, pops, avatar, queueCalls>>

\* Tilemap.findTileByExactPosition, as "a tile was found"
findTileByExactPosition(position) ==
    \E t \in tiles : Equals(t, position)

(***************************************************************************)
(* CubeCollection.                                                         *)
(***************************************************************************)
\* a cube: position.z, size and the position of its current tile
Cube(z, size, tilePosition) == [z |-> z, size |-> size, currentTile |-> tilePosition]

\* the reduce of findTallestCubeAt over cs[1..n]; a cube index or NullRef
RECURSIVE TallestCubeFold(_, _, _)
TallestCubeFold(cs, n, position) ==
    IF n = 0 THEN NullRef
    ELSE LET currentTallest == TallestCubeFold(cs, n - 1, position)
             cube == cs[n]
             isAtPosition == Equals(cube.currentTile, position)
             isTaller == currentTallest = NullRef \/ cube.z > cs[currentTallest].z
         IN IF isAtPosition /\ isTaller THEN n ELSE currentTallest

findTallestCubeAtIn(cs, position) == TallestCubeFold(cs, Len(cs), position)

findTallestCubeAt(position) == findTallestCubeAtIn(cubes, position)

(***************************************************************************)
(* Node.                                                                   *)
(***************************************************************************)
\* new Node(position)
NewNode(position) ==
    [position |-> position, gCost |-> 0, hCost |-> 0, fCost |-> 0,
     parent |-> NullRef, height |-> 0]

\* Node.updateFCost
updateFCost(node) == [node EXCEPT !.fCost = NumAdd(node.gCost, node.hCost)]

\* null or undefined where a Point3D is expected, and where a path is
NullPoint == [x |-> NaN, y |-> NaN, z |-> NaN]
NullPath == <<>>

\* the Avatar's fields at construction: position, #currentTile (the position
\* of the tile), #goalPosition, #targetPosition, #isMoving, the promise whose
\* resolve function #onMovementComplete holds (the #moveAlongPath call of
\* that number), and the #moveAlongPath calls made
NoAvatar ==
    [position |-> Point3D(0, 0, 0), currentTile |-> NullPoint, goalPosition |-> NullPoint,
     targetPosition |-> NullPoint, isMoving |-> FALSE, onMovementComplete |-> NullRef,
     moves |-> <<>>]

\* no call made yet on the PriorityQueue: the priorities enqueued, in order
\* (the values are their indices), the values dequeue returned, the parity of
\* the number of dequeue calls and the value the last one returned
NoQueueCalls == [priorities |-> <<>>, removed |-> {}, dequeues |-> 0, returned |-> NullRef]

\* no call was made before
NoCall == [goal |-> Point3D(0, 0, 0), result |-> [kind |-> "none", path |-> <<>>]]

NoResult == [kind |-> "pending", path |-> <<>>]
NullResult == [kind |-> "null", path |-> <<>>]
PathResult(path) == [kind |-> "path", path |-> path]

(***************************************************************************)
(* Tilemap Pathfinder.                                                     *)
(***************************************************************************)
\* validateInput that forgets to validate the goal
validateInputForgetsGoal(start, goal) ==
    /\ isValidTilePosition(start, grid)
    /\ ~Equals(start, goal)

validateInput(start, goal) ==
    /\ isValidTilePosition(start, grid)
    /\ isValidTilePosition(goal, grid)
    /\ ~Equals(start, goal)

createStartNode(start, goal) ==
    updateFCost([NewNode(start) EXCEPT !.hCost = distanceTo(start, goal)])

\* isInClosedList that finds nothing
isInClosedListNever(ns, node, closed) == FALSE

isInClosedList(ns, node, closed) ==
    \E c \in closed : Equals(ns[c].position, node.position)

\* the height of the tile alone, whatever stands on it
NodeHeightOfTile(position) ==
    NumAdd(cartesianToIsometric(position).z, TILE_THICKNESS)

\* the height #updateNodeHeight assigns to a node at the given position
NodeHeight(position) ==
    LET nodePosition == cartesianToIsometric(position)
        tallestCubeAtNode == findTallestCubeAt(nodePosition)
    IN IF tallestCubeAtNode # NullRef
       THEN cubes[tallestCubeAtNode].z + cubes[tallestCubeAtNode].size
       ELSE NumAdd(nodePosition.z, TILE_THICKNESS)

updateNodeHeight(node) == [node EXCEPT !.height = NodeHeight(node.position)]

RECURSIVE ParentChain(_, _)
ParentChain(ns, n) ==
    IF n = NullRef THEN <<>>
    ELSE Append(ParentChain(ns, ns[n].parent), ns[n].position)

\* reconstructPath without the reverse: end node first
reconstructPathUnreversed(ns, goalNode) ==
    LET chain == ParentChain(ns, goalNode)
    IN [i \in 1..Len(chain) |-> chain[Len(chain) - i + 1]]

\* walks the parent links and reverses: start first
reconstructPath(ns, goalNode) == ParentChain(ns, goalNode)

\* the neighbor offsets without the diagonals
NeighborOffsetsOrthogonal ==
    << <<-1, 0>>, <<1, 0>>, <<0, -1>>, <<0, 1>> >>

NeighborOffsets ==
    << <<-1, 0>>, <<1, 0>>, <<0, -1>>, <<0, 1>>,
       <<-1, -1>>, <<1, 1>>, <<-1, 1>>, <<1, -1>> >>

getNeighborPositions(position) ==
    LET neighborPositions ==
            [i \in 1..Len(NeighborOffsets) |->
                LET nx == position.x + NeighborOffsets[i][1]
                    ny == position.y + NeighborOffsets[i][2]
                IN Point3D(nx, ny, GridAt(grid, nx, ny))]
    IN SelectSeq(neighborPositions, LAMBDA p : isValidTilePosition(p, grid))

\* isObstacle with a third of the avatar's height as the climbable step
isObstacleLowThreshold(node, currentNode) ==
    LET nodePosition == cartesianToIsometric(node.position)
        tallestCubeAtNode == findTallestCubeAt(nodePosition)
        isNarrowerThanAvatar ==
            IF tallestCubeAtNode # NullRef
            THEN cubes[tallestCubeAtNode].size < AVATAR_WIDTH
            ELSE FALSE
        maximumHeightThreshold == NumAdd(currentNode.height, AVATAR_HEIGHT \div 3)
        isNodeHigher == NumLess(maximumHeightThreshold, node.height)
    IN isNarrowerThanAvatar \/ isNodeHigher

\* isObstacle that only looks at the height
isObstacleHeightOnly(node, currentNode) ==
    NumLess(NumAdd(currentNode.height, (AVATAR_HEIGHT * 2) \div 3), node.height)

isObstacle(node, currentNode) ==
    LET nodePosition == cartesianToIsometric(node.position)
        tallestCubeAtNode == findTallestCubeAt(nodePosition)
        isNarrowerThanAvatar ==
            IF tallestCubeAtNode # NullRef
            THEN cubes[tallestCubeAtNode].size < AVATAR_WIDTH
            ELSE FALSE
        maximumHeightThreshold ==
            NumAdd(currentNode.height, (AVATAR_HEIGHT * 2) \div 3)
        isNodeHigher == NumLess(maximumHeightThreshold, node.height)
    IN isNarrowerThanAvatar \/ isNodeHigher

isDiagonalMove(node, currentNode) ==
    /\ Abs(node.position.x - currentNode.position.x) = 1
    /\ Abs(node.position.y - currentNode.position.y) = 1

calculateMovementDirection(targetNode, currentNode) ==
    [x |-> targetNode.position.x - currentNode.position.x,
     y |-> targetNode.position.y - currentNode.position.y]

calculateObstaclePosition2D(targetNode, movementDirection, side) ==
    IF side = "left"
    THEN [x |-> targetNode.position.x, y |-> targetNode.position.y - movementDirection.y]
    ELSE [x |-> targetNode.position.x - movementDirection.x, y |-> targetNode.position.y]

calculateObstaclePosition3D(targetNode, movementDirection, side) ==
    LET obstaclePosition2D == calculateObstaclePosition2D(targetNode, movementDirection, side)
        obstacleZ == GridAt(grid, obstaclePosition2D.x, obstaclePosition2D.y)
    IN cartesianToIsometric(Point3D(obstaclePosition2D.x, obstaclePosition2D.y, obstacleZ))

getPotentialObstaclePositions(targetNode, currentNode) ==
    LET movementDirection == calculateMovementDirection(targetNode, currentNode)
    IN << calculateObstaclePosition3D(targetNode, movementDirection, "left"),
          calculateObstaclePosition3D(targetNode, movementDirection, "right") >>

\* isPathObstructed that is content with one blocked flanking position
isPathObstructedBySomeFlank(node, currentNode) ==
    IF ~isDiagonalMove(node, currentNode) THEN FALSE
    ELSE LET potentialObstaclePositions == getPotentialObstaclePositions(node, currentNode)
         IN \E i \in 1..Len(potentialObstaclePositions) :
                LET position == potentialObstaclePositions[i]
                IN \/ ~findTileByExactPosition(position)
                   \/ findTallestCubeAt(position) # NullRef

\* isPathObstructed that counts only the cubes on the flanking positions
isPathObstructedCubesOnly(node, currentNode) ==
    IF ~isDiagonalMove(node, currentNode) THEN FALSE
    ELSE LET potentialObstaclePositions == getPotentialObstaclePositions(node, currentNode)
         IN \A i \in 1..Len(potentialObstaclePositions) :
                findTallestCubeAt(potentialObstaclePositions[i]) # NullRef

isPathObstructed(node, currentNode) ==
    IF ~isDiagonalMove(node, currentNode) THEN FALSE
    ELSE LET potentialObstaclePositions == getPotentialObstaclePositions(node, currentNode)
         IN \A i \in 1..Len(potentialObstaclePositions) :
                LET position == potentialObstaclePositions[i]
                IN \/ ~findTileByExactPosition(position)
                   \/ findTallestCubeAt(position) # NullRef

\* a reference to a node of the open list at the neighbor's position, or NullRef
findExistingNode(ns, neighborNode, open) ==
    IF \E n \in open : Equals(ns[n].position, neighborNode.position)
    THEN CHOOSE n \in open : Equals(ns[n].position, neighborNode.position)
    ELSE NullRef

calculateGCost(currentNode, neighborNode) ==
    LET dx == Abs(currentNode.position.x - neighborNode.position.x)
        dy == Abs(currentNode.position.y - neighborNode.position.y)
        costOfMovement ==
            IF dx - dy = 0
            THEN (DIAGONAL_COST * neighborNode.gCost) \div HORIZONTAL_VERTICAL_COST
            ELSE (HORIZONTAL_VERTICAL_COST * neighborNode.gCost) \div HORIZONTAL_VERTICAL_COST
    IN currentNode.gCost + costOfMovement

updateNeighborNode(neighborNode, currentRef, gCost, goal) ==
    updateFCost([neighborNode EXCEPT
                    !.gCost = gCost,
                    !.hCost = distanceTo(neighborNode.position, goal),
                    !.parent = currentRef])

\* the search state threaded through the forEach over the neighbor nodes
SearchState(ns, open) == [nodes |-> ns, openList |-> open]

\* processNeighborNode over pooled nodes: a position that already has a node,
\* open or closed, gets that node updated and pushed again
processNeighborNodePooled(st, neighborPosition, currentRef, goal) ==
    LET currentNode == st.nodes[currentRef]
        neighborNode == updateNodeHeight(NewNode(neighborPosition))
        pooled == {n \in 1..Len(st.nodes) : Equals(st.nodes[n].position, neighborPosition)}
    IN IF isObstacle(neighborNode, currentNode) \/ isPathObstructed(neighborNode, currentNode)
       THEN st
       ELSE LET gCost == calculateGCost(currentNode, neighborNode)
            IN IF pooled # {}
               THEN LET n == CHOOSE n \in pooled : TRUE
                    IN IF n \in st.openList THEN st
                       ELSE SearchState(
                               [st.nodes EXCEPT ![n] =
                                   updateNeighborNode(neighborNode, currentRef, gCost, goal)],
                               st.openList \cup {n})
               ELSE SearchState(
                       Append(st.nodes, updateNeighborNode(neighborNode, currentRef, gCost, goal)),
                       st.openList \cup {Len(st.nodes) + 1})

processNeighborNode(st, neighborPosition, currentRef, goal) ==
    LET currentNode == st.nodes[currentRef]
        neighborNode == updateNodeHeight(NewNode(neighborPosition))
    IN IF isObstacle(neighborNode, currentNode) \/ isPathObstructed(neighborNode, currentNode)
       THEN st
       ELSE LET existingNode == findExistingNode(st.nodes, neighborNode, st.openList)
                gCost == calculateGCost(currentNode, neighborNode)
            IN IF existingNode # NullRef /\ gCost >= st.nodes[existingNode].gCost
               THEN st
               ELSE IF existingNode # NullRef
                    \* the fresh neighborNode is updated and then dropped
                    THEN st
                    ELSE SearchState(
                            Append(st.nodes, updateNeighborNode(neighborNode, currentRef, gCost, goal)),
                            st.openList \cup {Len(st.nodes) + 1})

RECURSIVE ProcessNeighbors(_, _, _, _, _)
ProcessNeighbors(st, positions, i, currentRef, goal) ==
    IF i > Len(positions) THEN st
    ELSE ProcessNeighbors(processNeighborNode(st, positions[i], currentRef, goal),
                          positions, i + 1, currentRef, goal)

\* the nodes Heap.pop may return: one of least fCost; a heap that holds a
\* NaN fCost is not ordered by the comparator, and any node may be at its root
PopChoices(ns, open) ==
    IF \E n \in open : ns[n].fCost = NaN
    THEN open
    ELSE {n \in open : \A m \in open : ~(ns[m].fCost < ns[n].fCost)}

(***************************************************************************)
(* The explored rooms: the smallest grid with a diagonal move and its two  *)
(* flanking cells, changed by at most MaxFeatures features (a missing tile, *)
(* a raised tile, a row shorter than the others, a cube on a tile); the    *)
(* open grids up to MaxOpenSize; the open grid of the test grid's extent   *)
(* with a narrow cube in its middle; and the test grid.                    *)
(***************************************************************************)
BaseGrid == << <<0, 0>>, <<0, 0>> >>

BaseCells == {<<x, y>> : x \in 0..Len(BaseGrid) - 1, y \in 0..Len(BaseGrid[1]) - 1}

Features ==
    {<<"none", 0, 0, 0>>}
    \cup {<<"hole", c[1], c[2], 0>> : c \in BaseCells}
    \cup {<<"raise", c[1], c[2], l>> : c \in BaseCells, l \in 1..MaxElevation}
    \cup {<<"cut", x, 0, 0>> : x \in 0..Len(BaseGrid) - 1}
    \cup {<<"cube", c[1], c[2], size>> :
            c \in BaseCells, size \in {NARROW_CUBE_SIZE, WIDE_CUBE_SIZE}}

ApplyToGrid(g, f) ==
    LET x == f[2] + 1
        y == f[3] + 1
    IN CASE f[1] = "hole" /\ y <= Len(g[x]) -> [g EXCEPT ![x][y] = Absent]
         [] f[1] = "raise" /\ y <= Len(g[x]) -> [g EXCEPT ![x][y] = f[4]]
         [] f[1] = "cut" /\ Len(g[x]) > 0 -> [g EXCEPT ![x] = SubSeq(@, 1, Len(@) - 1)]
         [] OTHER -> g

RECURSIVE BuildGrid(_, _, _)
BuildGrid(g, fs, i) ==
    IF i > Len(fs) THEN g ELSE BuildGrid(ApplyToGrid(g, fs[i]), fs, i + 1)

\* CubeCollection.populateSceneWithCubes for one setting: the cube rests on
\* the tile, or on the tallest cube already there when that is not narrower
PlaceCube(cs, g, f) ==
    LET z == GridAt(g, f[2], f[3])
        tilePosition == cartesianToIsometric(Point3D(f[2], f[3], z))
        tallestCubeAtTile == findTallestCubeAtIn(cs, tilePosition)
    IN IF f[1] # "cube" \/ z = Absent \/ z = Undefined THEN cs
       ELSE IF tallestCubeAtTile = NullRef
            THEN Append(cs, Cube(tilePosition.z, f[4], tilePosition))
            ELSE IF cs[tallestCubeAtTile].size < f[4] THEN cs
                 ELSE Append(cs, Cube(cs[tallestCubeAtTile].z + cs[tallestCubeAtTile].size,
                                      f[4], tilePosition))

RECURSIVE BuildCubes(_, _, _, _)
BuildCubes(cs, g, fs, i) ==
    IF i > Len(fs) THEN cs ELSE BuildCubes(PlaceCube(cs, g, fs[i]), g, fs, i + 1)

Room(g, cs) == [grid |-> g, cubes |-> cs]

\* the open grid of the test grid's extent with a narrow cube on its middle tile
CubeRoom ==
    LET g == OpenGrid(Len(TEST_GRID))
        m == Len(TEST_GRID) \div 2
    IN Room(g, PlaceCube(<<>>, g, <<"cube", m, m, NARROW_CUBE_SIZE>>))

Rooms ==
    {LET g == BuildGrid(BaseGrid, fs, 1) IN Room(g, BuildCubes(<<>>, g, fs, 1)) :
        fs \in [1..MaxFeatures -> Features]}
    \cup {Room(OpenGrid(n), <<>>) : n \in 2..MaxOpenSize}
    \cup {Room(TEST_GRID, <<>>), CubeRoom}

\* the positions offered to findPath: every cell of the grid's extent with the
\* grid's value as z (0 past the end of a short row), one position past each
\* edge, and the first cell with a z that is not the grid's value
InputPositions(g) ==
    {Point3D(x, y, IF GridAt(g, x, y) = Undefined THEN 0 ELSE GridAt(g, x, y)) :
        x \in 0..Len(g) - 1, y \in 0..MaxRowLength(g) - 1}
    \cup {Point3D(-1, 0, 0), Point3D(Len(g), 0, 0),
          Point3D(0, -1, 0), Point3D(0, MaxRowLength(g), 0)}
    \cup {Point3D(0, 0, GridAt(g, 0, 0) + 1)}

\* the four corner cells of a grid
Corners(g) ==
    {Point3D(x, y, GridAt(g, x, y)) :
        x \in {0, Len(g) - 1}, y \in {0, MaxRowLength(g) - 1}}

\* the endpoints offered in a room: in the room with the cube in the middle
\* of the larger grid, the corners; elsewhere every input position
Endpoints(g, cs) ==
    IF cs # <<>> /\ Len(g) > Len(BaseGrid) THEN Corners(g) ELSE InputPositions(g)

(***************************************************************************)
(* The tilemap Pathfinder's findPath, one action per loop iteration.       *)
(***************************************************************************)
Idle ==
    /\ pc = "idle"
    /\ startPosition = Point3D(0, 0, 0)
    /\ goalPosition = Point3D(0, 0, 0)
    /\ isRecalculating = FALSE
    /\ nodes = <<>>
    /\ openList = {}
    /\ queue = <<>>
    /\ closedList = {}
    /\ closestNode = NullRef
    /\ iterations = 0
    /\ result = NoResult
    /\ previous = NoCall
    /\ pops = <<>>
    /\ avatar = NoAvatar
    /\ queueCalls = NoQueueCalls

Init ==
    /\ \E room \in Rooms :
        /\ grid = room.grid
        /\ cubes = room.cubes
        /\ tiles = TilePositions(room.grid)
    /\ Idle

\* findPath(start, goal, recalculating) up to the head of the while loop
FindPathCall(start, goal, recalculating) ==
    /\ startPosition' = start
    /\ goalPosition' = goal
    /\ isRecalculating' = recalculating
    /\ IF ~validateInput(start, goal)
       THEN /\ result' = NullResult
            /\ pc' = "done"
            /\ UNCHANGED <<nodes, openList, closedList, closestNode>>
       ELSE /\ nodes' = <<createStartNode(start, goal)>>
            /\ openList' = {1}
            /\ closedList' = {}
            /\ closestNode' = 1
            /\ result' = NoResult
            /\ pc' = "loop"
    /\ pops' = <<>>
    /\ UNCHANGED <<queueCalls, avatar, previous, grid, tiles, cubes, queue, iterations>>

FindPath ==
    /\ pc = "idle"
    /\ \E start \in Endpoints(grid, cubes), goal \in Endpoints(grid, cubes),
          recalculating \in BOOLEAN :
        FindPathCall(start, goal, recalculating)

\* an iteration that pops a node whose position is already closed
SkipClosed ==
    /\ pc = "loop"
    /\ \E currentNode \in PopChoices(nodes, openList) :
        /\ isInClosedList(nodes, nodes[currentNode], closedList)
        /\ openList' = openList \ {currentNode}
        /\ pops' = Append(pops, currentNode)
    /\ UNCHANGED <<queueCalls, avatar, previous, grid, tiles, cubes, startPosition, goalPosition, isRecalculating,
                   pc, nodes, queue, closedList, closestNode, iterations, result>>

\* the closestNode after currentNode was closed
NextClosest(ns, currentNode) ==
    IF NumLess(ns[currentNode].fCost, ns[closestNode].fCost)
    THEN currentNode ELSE closestNode

\* ReachGoal that, when recalculating, returns the path to the closestNode
\* tracked before the goal was popped
ReachGoalToClosestWhenRecalculating ==
    /\ pc = "loop"
    /\ \E currentNode \in PopChoices(nodes, openList) :
        /\ ~isInClosedList(nodes, nodes[currentNode], closedList)
        /\ Equals(nodes[currentNode].position, goalPosition)
        /\ pops' = Append(pops, currentNode)
        /\ LET ns == [nodes EXCEPT ![currentNode] = updateNodeHeight(@)]
           IN /\ nodes' = ns
              /\ openList' = openList \ {currentNode}
              /\ closedList' = closedList \cup {currentNode}
              /\ closestNode' = NextClosest(ns, currentNode)
              /\ result' = PathResult(reconstructPath(ns, IF isRecalculating THEN closestNode
                                                          ELSE currentNode))
              /\ pc' = "done"
    /\ UNCHANGED <<queueCalls, avatar, previous, grid, tiles, cubes, startPosition, goalPosition, isRecalculating,
                   queue, iterations>>

\* an iteration that pops the goal
ReachGoal ==
    /\ pc = "loop"
    /\ \E currentNode \in PopChoices(nodes, openList) :
        /\ ~isInClosedList(nodes, nodes[currentNode], closedList)
        /\ Equals(nodes[currentNode].position, goalPosition)
        /\ pops' = Append(pops, currentNode)
        /\ LET ns == [nodes EXCEPT ![currentNode] = updateNodeHeight(@)]
           IN /\ nodes' = ns
              /\ openList' = openList \ {currentNode}
              /\ closedList' = closedList \cup {currentNode}
              /\ closestNode' = NextClosest(ns, currentNode)
              /\ result' = PathResult(reconstructPath(ns, currentNode))
              /\ pc' = "done"
    /\ UNCHANGED <<queueCalls, avatar, previous, grid, tiles, cubes, startPosition, goalPosition, isRecalculating,
                   queue, iterations>>

\* Expand whose height update writes the resolved height to the tallest cube
\* of the popped node's cell
ExpandWritesCube ==
    /\ pc = "loop"
    /\ \E currentNode \in PopChoices(nodes, openList) :
        /\ ~isInClosedList(nodes, nodes[currentNode], closedList)
        /\ ~Equals(nodes[currentNode].position, goalPosition)
        /\ pops' = Append(pops, currentNode)
        /\ LET ns == [nodes EXCEPT ![currentNode] = updateNodeHeight(@)]
               st == ProcessNeighbors(SearchState(ns, openList \ {currentNode}),
                                      getNeighborPositions(ns[currentNode].position),
                                      1, currentNode, goalPosition)
               tallestCubeAtNode ==
                   findTallestCubeAt(cartesianToIsometric(ns[currentNode].position))
           IN /\ nodes' = st.nodes
              /\ openList' = st.openList
              /\ closedList' = closedList \cup {currentNode}
              /\ closestNode' = NextClosest(ns, currentNode)
              /\ cubes' = IF tallestCubeAtNode = NullRef THEN cubes
                          ELSE [cubes EXCEPT ![tallestCubeAtNode].z = ns[currentNode].height]
    /\ UNCHANGED <<queueCalls, avatar, previous, grid, tiles, startPosition, goalPosition, isRecalculating,
                   pc, queue, iterations, result>>

\* an iteration that pops another node and processes its neighbors
Expand ==
    /\ pc = "loop"
    /\ \E currentNode \in PopChoices(nodes, openList) :
        /\ ~isInClosedList(nodes, nodes[currentNode], closedList)
        /\ ~Equals(nodes[currentNode].position, goalPosition)
        /\ pops' = Append(pops, currentNode)
        /\ LET ns == [nodes EXCEPT ![currentNode] = updateNodeHeight(@)]
               st == ProcessNeighbors(SearchState(ns, openList \ {currentNode}),
                                      getNeighborPositions(ns[currentNode].position),
                                      1, currentNode, goalPosition)
           IN /\ nodes' = st.nodes
              /\ openList' = st.openList
              /\ closedList' = closedList \cup {currentNode}
              /\ closestNode' = NextClosest(ns, currentNode)
    /\ UNCHANGED <<queueCalls, avatar, previous, grid, tiles, cubes, startPosition, goalPosition, isRecalculating,
                   pc, queue, iterations, result>>

\* the loop's end that never falls back to the closest node
ExhaustedReturnsNull ==
    /\ pc = "loop"
    /\ openList = {}
    /\ result' = NullResult
    /\ pc' = "done"
    /\ UNCHANGED <<queueCalls, avatar, pops, previous, grid, tiles, cubes, startPosition, goalPosition, isRecalculating,
                   nodes, openList, queue, closedList, closestNode, iterations>>

\* the loop's end that always falls back to the closest node
ExhaustedReturnsClosest ==
    /\ pc = "loop"
    /\ openList = {}
    /\ result' = PathResult(reconstructPath(nodes, closestNode))
    /\ pc' = "done"
    /\ UNCHANGED <<queueCalls, avatar, pops, previous, grid, tiles, cubes, startPosition, goalPosition, isRecalculating,
                   nodes, openList, queue, closedList, closestNode, iterations>>

\* the loop ends on an empty open list
Exhausted ==
    /\ pc = "loop"
    /\ openList = {}
    /\ result' = IF isRecalculating
                 THEN PathResult(reconstructPath(nodes, closestNode))
                 ELSE NullResult
    /\ pc' = "done"
    /\ UNCHANGED <<queueCalls, avatar, pops, previous, grid, tiles, cubes, startPosition, goalPosition, isRecalculating,
                   nodes, openList, queue, closedList, closestNode, iterations>>

Next == FindPath \/ SkipClosed \/ ReachGoal \/ Expand \/ Exhausted

Spec == Init /\ [][Next]_vars

\* one iteration of the while loop, or its end
LoopStep == SkipClosed \/ ReachGoal \/ Expand \/ Exhausted

(***************************************************************************)
(* Two calls by the same caller, from the same start: the rooms are the    *)
(* open grids and the smallest grid changed by one feature.                *)
(***************************************************************************)
CallsRooms ==
    {Room(OpenGrid(n), <<>>) : n \in 2..MaxOpenSize - 1}
    \cup {LET g == BuildGrid(BaseGrid, <<f>>, 1) IN Room(g, BuildCubes(<<>>, g, <<f>>, 1)) :
            f \in Features}

CallsInit ==
    /\ \E room \in CallsRooms :
        /\ grid = room.grid
        /\ cubes = room.cubes
        /\ tiles = TilePositions(room.grid)
    /\ startPosition \in Endpoints(grid, cubes)
    /\ goalPosition = Point3D(0, 0, 0)
    /\ isRecalculating \in BOOLEAN
    /\ pc = "idle"
    /\ nodes = <<>>
    /\ openList = {}
    /\ queue = <<>>
    /\ closedList = {}
    /\ closestNode = NullRef
    /\ iterations = 0
    /\ result = NoResult
    /\ previous = NoCall
    /\ pops = <<>>
    /\ avatar = NoAvatar
    /\ queueCalls = NoQueueCalls

\* a call from the caller's start to a new goal
FindPathTo ==
    /\ pc = "idle"
    /\ \E goal \in Endpoints(grid, cubes) :
        FindPathCall(startPosition, goal, isRecalculating)

\* the caller keeps the returned value and is ready to call again
CallAgain ==
    /\ pc = "done"
    /\ previous' = [goal |-> goalPosition, result |-> result, pops |-> pops]
    /\ pc' = "idle"
    /\ nodes' = <<>>
    /\ openList' = {}
    /\ closedList' = {}
    /\ closestNode' = NullRef
    /\ result' = NoResult
    /\ pops' = <<>>
    /\ UNCHANGED <<queueCalls, avatar, grid, tiles, cubes, startPosition, goalPosition, isRecalculating,
                   queue, iterations>>

CallsNext == FindPathTo \/ SkipClosed \/ ReachGoal \/ Expand \/ Exhausted \/ CallAgain

CallsSpec == CallsInit /\ [][CallsNext]_vars

(***************************************************************************)
(* The same call in both modes: findPath(start, goal, false), and then     *)
(* findPath(start, goal, true) on the same grid and cubes, in which the    *)
(* heap returns what it returned in the first call for as long as the two  *)
(* calls pushed the same nodes.                                            *)
(***************************************************************************)
FindPathFirst ==
    /\ pc = "idle"
    /\ previous = NoCall
    /\ \E start \in Endpoints(grid, cubes), goal \in Endpoints(grid, cubes) :
        FindPathCall(start, goal, FALSE)

KeepFirst == previous = NoCall /\ CallAgain

FindPathOtherMode ==
    /\ pc = "idle"
    /\ previous # NoCall
    /\ FindPathCall(startPosition, goalPosition, TRUE)

\* the pop of this step is the pop the first call made at the same iteration
Replays ==
    \/ previous = NoCall
    \/ pops' = pops
    \/ /\ Len(pops') <= Len(previous.pops)
       /\ pops'[Len(pops')] = previous.pops[Len(pops')]

ModesNext ==
    \/ FindPathFirst
    \/ KeepFirst
    \/ FindPathOtherMode
    \/ (SkipClosed /\ Replays)
    \/ (ReachGoal /\ Replays)
    \/ (Expand /\ Replays)
    \/ (Exhausted /\ Replays)

ModesSpec == Init /\ [][ModesNext]_vars

(***************************************************************************)
(* PriorityQueue (an array kept sorted by priority).                       *)
(***************************************************************************)
QueueElement(value, priority) == [value |-> value, priority |-> priority]

\* the stable insertion of the last element of a sorted array: where
\* Array.prototype.sort leaves it
RECURSIVE InsertByPriority(_, _)
InsertByPriority(elements, element) ==
    IF elements = <<>> THEN <<element>>
    ELSE LET last == elements[Len(elements)]
         IN IF element.priority - last.priority < 0
            THEN Append(InsertByPriority(SubSeq(elements, 1, Len(elements) - 1), element), last)
            ELSE Append(elements, element)

\* #sort that puts the new element before the elements of equal priority
sortBeforeEquals(elements) ==
    IF elements = <<>> THEN elements
    ELSE LET last == elements[Len(elements)]
             sorted == SubSeq(elements, 1, Len(elements) - 1)
         IN SelectSeq(sorted, LAMBDA e : e.priority < last.priority)
            \o <<last>>
            \o SelectSeq(sorted, LAMBDA e : ~(e.priority < last.priority))

\* #sort of an array whose elements but the last are sorted
sort(elements) ==
    IF elements = <<>> THEN elements
    ELSE InsertByPriority(SubSeq(elements, 1, Len(elements) - 1), elements[Len(elements)])

enqueue(elements, value, priority) == sort(Append(elements, QueueElement(value, priority)))

isEmpty(elements) == Len(elements) = 0

\* the value dequeue returns, NullRef on an empty queue
dequeue(elements) == IF isEmpty(elements) THEN NullRef ELSE elements[1].value

\* the elements left by dequeue
afterDequeue(elements) == IF isEmpty(elements) THEN elements ELSE Tail(elements)

contains(elements, value) == \E i \in 1..Len(elements) : elements[i].value = value

\* the priorities offered to enqueue
Priorities == -1..2

(***************************************************************************)
(* A PriorityQueue under a caller that enqueues and dequeues at will.      *)
(***************************************************************************)
QueueInit ==
    /\ grid = BaseGrid
    /\ cubes = <<>>
    /\ tiles = TilePositions(BaseGrid)
    /\ Idle

\* enqueue(value, priority), the value being the number of the call
QueueEnqueue ==
    /\ Len(queueCalls.priorities) < MaxEnqueues
    /\ \E priority \in Priorities :
        /\ queue' = enqueue(queue, Len(queueCalls.priorities) + 1, priority)
        /\ queueCalls' = [queueCalls EXCEPT !.priorities = Append(@, priority)]
    /\ UNCHANGED <<avatar, pops, previous, grid, tiles, cubes, startPosition, goalPosition,
                   isRecalculating, pc, nodes, openList, closedList, closestNode,
                   iterations, result>>

\* dequeue()
QueueDequeue ==
    /\ queue' = afterDequeue(queue)
    /\ queueCalls' = [queueCalls EXCEPT
                        !.dequeues = (@ + 1) % 2,
                        !.returned = dequeue(queue),
                        !.removed = IF dequeue(queue) = NullRef THEN @
                                    ELSE @ \cup {dequeue(queue)}]
    /\ UNCHANGED <<avatar, pops, previous, grid, tiles, cubes, startPosition, goalPosition,
                   isRecalculating, pc, nodes, openList, closedList, closestNode,
                   iterations, result>>

QueueNext == QueueEnqueue \/ QueueDequeue

QueueSpec == QueueInit /\ [][QueueNext]_vars

(***************************************************************************)
(* Grid Pathfinder (constructed from a number[][] grid).                   *)
(***************************************************************************)
\* new Node(position, gCost, hCost, parent)
GridNode(position, gCost, hCost, parent) ==
    [position |-> position, gCost |-> gCost, hCost |-> hCost,
     fCost |-> gCost + hCost, parent |-> parent, height |-> 0]

gridIsInBounds(p) ==
    p.x >= 0 /\ p.x < Len(grid) /\ p.y >= 0 /\ p.y < Len(grid[1])

gridIsWalkableTile(p) ==
    LET tile == GridAt(grid, p.x, p.y)
    IN tile # Absent /\ tile # Undefined

gridIsValidTile(p) == gridIsInBounds(p) /\ gridIsWalkableTile(p)

gridGetNeighborPoints(p) ==
    LET neighborPoints ==
            << Point3D(p.x - 1, p.y, p.z), Point3D(p.x + 1, p.y, p.z),
               Point3D(p.x, p.y - 1, p.z), Point3D(p.x, p.y + 1, p.z),
               Point3D(p.x - 1, p.y - 1, p.z), Point3D(p.x + 1, p.y + 1, p.z),
               Point3D(p.x - 1, p.y + 1, p.z), Point3D(p.x + 1, p.y - 1, p.z) >>
    IN SelectSeq(neighborPoints, gridIsValidTile)

MinOf(S) == CHOOSE m \in S : \A n \in S : m <= n

gridCalculateGCost(currentNode, neighborPoint) ==
    LET minDelta == MinOf({Abs(currentNode.position.x - neighborPoint.x),
                           Abs(currentNode.position.y - neighborPoint.y),
                           Abs(currentNode.position.z - neighborPoint.z)})
    IN IF minDelta > 0 THEN DIAGONAL_COST * minDelta
       ELSE HORIZONTAL_VERTICAL_COST * minDelta

gridCalculateHeuristic(point, goalPoint) ==
    Hypot(Abs(point.x - goalPoint.x), Abs(point.y - goalPoint.y),
          Abs(point.z - goalPoint.z))

\* unshifts the positions along the parent links: start first
gridReconstructPath(ns, node) == ParentChain(ns, node)

\* the body of the forEach over the neighbor points
gridExploreNeighbor(st, neighborPoint, currentRef, goalPoint) ==
    IF ~gridIsValidTile(neighborPoint) THEN st
    ELSE LET currentNode == st.nodes[currentRef]
             gCost == currentNode.gCost + gridCalculateGCost(currentNode, neighborPoint)
             hCost == gridCalculateHeuristic(neighborPoint, goalPoint)
             fCost == gCost + hCost
             neighborNode == GridNode(neighborPoint, gCost, hCost, currentRef)
             neighborRef == Len(st.nodes) + 1
         IN IF contains(st.queue, neighborRef) /\ fCost >= neighborNode.fCost
            THEN st
            ELSE [nodes |-> Append(st.nodes, neighborNode),
                  queue |-> enqueue(st.queue, neighborRef, fCost)]

RECURSIVE gridExploreNeighbors(_, _, _, _, _)
gridExploreNeighbors(st, points, i, currentRef, goalPoint) ==
    IF i > Len(points) THEN st
    ELSE gridExploreNeighbors(gridExploreNeighbor(st, points[i], currentRef, goalPoint),
                              points, i + 1, currentRef, goalPoint)

GridRooms == {room.grid : room \in Rooms} \cup {WALL_GRID, ISLAND_GRID}

\* the points offered to the grid Pathfinder: every cell of the grid's
\* extent and one point past each edge, with z = 0 as in the test
GridInputPoints(g) ==
    {Point3D(x, y, 0) : x \in 0..Len(g) - 1, y \in 0..MaxRowLength(g) - 1}
    \cup {Point3D(-1, 0, 0), Point3D(Len(g), 0, 0),
          Point3D(0, -1, 0), Point3D(0, MaxRowLength(g), 0)}

GridInit ==
    /\ grid \in GridRooms
    /\ tiles = {}
    /\ cubes = <<>>
    /\ Idle

\* findPath up to the head of the while loop
GridFindPath ==
    /\ pc = "idle"
    /\ \E startPoint \in GridInputPoints(grid), goalPoint \in GridInputPoints(grid) :
        /\ startPosition' = startPoint
        /\ goalPosition' = goalPoint
        /\ IF ~gridIsValidTile(startPoint) \/ ~gridIsValidTile(goalPoint)
           THEN /\ result' = NullResult
                /\ pc' = "done"
                /\ UNCHANGED <<nodes, queue>>
           ELSE LET startNode ==
                        GridNode(startPoint, 0, gridCalculateHeuristic(startPoint, goalPoint),
                                 NullRef)
                IN /\ nodes' = <<startNode>>
                   /\ queue' = enqueue(<<>>, 1, startNode.fCost)
                   /\ result' = NoResult
                   /\ pc' = "loop"
    /\ UNCHANGED <<queueCalls, avatar, pops, previous, grid, tiles, cubes, isRecalculating, openList, closedList,
                   closestNode, iterations>>

\* an iteration that dequeues null
GridNoPath ==
    /\ pc = "loop"
    /\ dequeue(queue) = NullRef
    /\ result' = NullResult
    /\ pc' = "done"
    /\ UNCHANGED <<queueCalls, avatar, pops, previous, grid, tiles, cubes, startPosition, goalPosition, isRecalculating,
                   nodes, openList, queue, closedList, closestNode, iterations>>

\* an iteration that dequeues the goal
GridReachGoal ==
    /\ pc = "loop"
    /\ dequeue(queue) # NullRef
    /\ Equals(nodes[dequeue(queue)].position, goalPosition)
    /\ result' = PathResult(gridReconstructPath(nodes, dequeue(queue)))
    /\ queue' = afterDequeue(queue)
    /\ pc' = "done"
    /\ UNCHANGED <<queueCalls, avatar, pops, previous, grid, tiles, cubes, startPosition, goalPosition, isRecalculating,
                   nodes, openList, closedList, closestNode, iterations>>

\* an iteration that dequeues another node and explores its neighbors; the
\* model follows a call for MaxIterations iterations
GridExpand ==
    /\ pc = "loop"
    /\ iterations < MaxIterations
    /\ dequeue(queue) # NullRef
    /\ ~Equals(nodes[dequeue(queue)].position, goalPosition)
    /\ LET currentNode == dequeue(queue)
           st == gridExploreNeighbors([nodes |-> nodes, queue |-> afterDequeue(queue)],
                                      gridGetNeighborPoints(nodes[currentNode].position),
                                      1, currentNode, goalPosition)
       IN /\ nodes' = st.nodes
          /\ queue' = st.queue
          /\ closedList' = closedList \cup {currentNode}
    /\ iterations' = iterations + 1
    /\ UNCHANGED <<queueCalls, avatar, pops, previous, grid, tiles, cubes, startPosition, goalPosition, isRecalculating,
                   pc, openList, closestNode, result>>

GridNext == GridFindPath \/ GridNoPath \/ GridReachGoal \/ GridExpand

GridSpec == GridInit /\ [][GridNext]_vars

(***************************************************************************)
(* Avatar: the movement along the paths calculatePath obtains.  A state is *)
(* the state between two synchronous runs of code: an event handler, a     *)
(* ticker update, or the continuation of an async function (a microtask).  *)
(* Continuations that can run do so before the next event is handled.      *)
(***************************************************************************)
isometricToCartesian(p) ==
    Point3D((p.x \div (TILE_WIDTH \div 2) + p.y \div (TILE_HEIGHT \div 2)) \div 2,
            (p.y \div (TILE_HEIGHT \div 2) - p.x \div (TILE_WIDTH \div 2)) \div 2,
            p.z \div TILE_HEIGHT)

\* Point3D.add of a Point: z is kept
addOffsets(p, offsets) == Point3D(p.x + offsets.x, p.y + offsets.y, p.z)

\* the cells findPath accepts as an endpoint
ValidCells == {p \in InputPositions(grid) : isValidTilePosition(p, grid)}

\* the paths of up to n more waypoints that extend the paths given, each
\* waypoint an 8-neighbour of the one before and on no cell of the path
RECURSIVE ExtendPaths(_, _)
ExtendPaths(paths, n) ==
    IF n = 0 THEN paths
    ELSE paths \cup ExtendPaths(
            {Append(path, c) : <<path, c>> \in
                {pc2 \in paths \X ValidCells :
                    /\ \A i \in 1..Len(pc2[1]) : pc2[1][i] # pc2[2]
                    /\ Abs(pc2[1][Len(pc2[1])].x - pc2[2].x) <= 1
                    /\ Abs(pc2[1][Len(pc2[1])].y - pc2[2].y) <= 1}},
            n - 1)

\* what findPath may return to the avatar, null left aside: a path from start
\* (C22) of distinct neighbouring cells (C26, C27), to the goal unless the
\* call is recalculating
FoundPaths(start, goal, recalculating) ==
    IF ~validateInput(start, goal) THEN {}
    ELSE {path \in ExtendPaths({<<start>>}, MaxPathLength - 1) :
            recalculating \/ path[Len(path)] = goal}

\* the reduce of #moveAlongPath: one async callback per waypoint, each
\* awaiting the one before; waypoint counts the moveTo calls made, and state
\* is "resumable" when the awaited promise is resolved and the continuation
\* has not run, "awaiting" inside moveTo, "complete" after the last callback
moveAlongPath(path) == [path |-> path, waypoint |-> 0, state |-> "resumable"]

\* moveTo that keeps the completion callback of a movement under way
moveToKeepsCallback(a, move) ==
    LET position == a.moves[move].path[a.moves[move].waypoint + 1]
        tilePosition == cartesianToIsometric(position)
        tallestCubeAtTile == findTallestCubeAt(tilePosition)
        target == addOffsets(tilePosition, AVATAR_OFFSETS)
    IN [a EXCEPT
            !.currentTile = IF findTileByExactPosition(tilePosition)
                            THEN tilePosition ELSE NullPoint,
            !.targetPosition =
                IF tallestCubeAtTile # NullRef
                THEN [target EXCEPT !.z = cubes[tallestCubeAtTile].z + cubes[tallestCubeAtTile].size]
                ELSE target,
            !.isMoving = TRUE,
            !.onMovementComplete = IF @ = NullRef THEN move ELSE @,
            !.moves[move].waypoint = @ + 1,
            !.moves[move].state = "awaiting"]

\* #moveTo up to its await, called by the callback of #moveAlongPath call move
moveTo(a, move) ==
    LET position == a.moves[move].path[a.moves[move].waypoint + 1]
        tilePosition == cartesianToIsometric(position)
        tallestCubeAtTile == findTallestCubeAt(tilePosition)
        target == addOffsets(tilePosition, AVATAR_OFFSETS)
    IN [a EXCEPT
            !.currentTile = IF findTileByExactPosition(tilePosition)
                            THEN tilePosition ELSE NullPoint,
            !.targetPosition =
                IF tallestCubeAtTile # NullRef
                THEN [target EXCEPT !.z = cubes[tallestCubeAtTile].z + cubes[tallestCubeAtTile].size]
                ELSE target,
            !.isMoving = TRUE,
            !.onMovementComplete = move,
            !.moves[move].waypoint = @ + 1,
            !.moves[move].state = "awaiting"]

\* #stopMovement that leaves the target in place
stopMovementKeepsTarget(a) ==
    [a EXCEPT !.onMovementComplete = NullRef, !.isMoving = FALSE]

stopMovement(a) ==
    [a EXCEPT !.targetPosition = NullPoint, !.onMovementComplete = NullRef, !.isMoving = FALSE]

\* #handleDestinationReached: onMovementComplete() resolves the promise the
\* moveTo call awaits
handleDestinationReached(a) ==
    IF a.targetPosition = NullPoint \/ a.onMovementComplete = NullRef THEN a
    ELSE stopMovement([a EXCEPT !.position = a.targetPosition,
                                !.moves[a.onMovementComplete].state = "resumable"])

\* adjustPositionOnCubeDrag; cube.currentTile is the tile the cube leaves
adjustPositionOnCubeDrag(a, cube) ==
    IF a.currentTile = NullPoint \/ cube.currentTile # a.currentTile THEN a
    ELSE LET newPosition == [a.position EXCEPT !.z = @ - cube.size]
         IN [a EXCEPT !.position = newPosition,
                      !.targetPosition = IF @ = NullPoint THEN @ ELSE newPosition]

\* calculatePath up to the first await, findPath having returned path
\* (NullPath for null)
calculatePath(a, path) ==
    IF a.currentTile = NullPoint \/ a.goalPosition = NullPoint \/ path = NullPath THEN a
    ELSE [a EXCEPT !.moves = Append(@, moveAlongPath(path))]

\* the values findPath may return to calculatePath
FindPathReturns(a, recalculating) ==
    IF a.currentTile = NullPoint \/ a.goalPosition = NullPoint THEN {NullPath}
    ELSE {NullPath} \cup
         (IF Len(a.moves) < MaxCalls
          THEN FoundPaths(isometricToCartesian(a.currentTile), a.goalPosition, recalculating)
          ELSE {})

\* no continuation is waiting to run
NoMicrotask == \A move \in 1..Len(avatar.moves) : avatar.moves[move].state # "resumable"

\* the avatar after initialize() on a tile without a cube, in the smallest
\* open room with one narrow cube
AvatarInit ==
    /\ grid = OpenGrid(2)
    /\ tiles = TilePositions(grid)
    /\ cubes = PlaceCube(<<>>, grid, <<"cube", 1, 1, NARROW_CUBE_SIZE>>)
    /\ \E cell \in ValidCells :
        /\ findTallestCubeAt(cartesianToIsometric(cell)) = NullRef
        /\ avatar = [NoAvatar EXCEPT
                        !.position = addOffsets(cartesianToIsometric(cell), AVATAR_OFFSETS),
                        !.currentTile = cartesianToIsometric(cell)]
    /\ startPosition = Point3D(0, 0, 0)
    /\ goalPosition = Point3D(0, 0, 0)
    /\ isRecalculating = FALSE
    /\ pc = "idle"
    /\ nodes = <<>>
    /\ openList = {}
    /\ queue = <<>>
    /\ closedList = {}
    /\ closestNode = NullRef
    /\ iterations = 0
    /\ result = NoResult
    /\ previous = NoCall
    /\ pops = <<>>
    /\ queueCalls = NoQueueCalls

\* Tile.#handlePointerDown
TileHandlePointerDown ==
    /\ NoMicrotask
    /\ \E tile \in tiles :
        LET a == [avatar EXCEPT !.goalPosition = isometricToCartesian(tile)]
        IN \E path \in FindPathReturns(a, FALSE) :
            avatar' = calculatePath(a, path)
    /\ UNCHANGED <<queueCalls, pops, previous, grid, tiles, cubes, startPosition, goalPosition,
                   isRecalculating, pc, nodes, openList, queue, closedList, closestNode,
                   iterations, result>>

\* Cube.#handleDragMove of the dragged cube over a tile, with #placeOnTile
CubeHandleDragMove ==
    /\ NoMicrotask
    /\ \E cube \in 1..Len(cubes), targetTile \in tiles :
        /\ targetTile # cubes[cube].currentTile
        /\ targetTile # avatar.currentTile
        /\ LET tallestCubeAtTile == findTallestCubeAt(targetTile)
               isPlaced ==
                   ~(\/ tallestCubeAtTile = cube
                     \/ /\ tallestCubeAtTile # NullRef
                        /\ cubes[cube].size > cubes[tallestCubeAtTile].size)
               z == IF tallestCubeAtTile # NullRef
                    THEN cubes[tallestCubeAtTile].z + cubes[tallestCubeAtTile].size
                    ELSE targetTile.z
               a == IF isPlaced THEN adjustPositionOnCubeDrag(avatar, cubes[cube]) ELSE avatar
           IN /\ cubes' = IF isPlaced
                          THEN [cubes EXCEPT ![cube] = Cube(z, cubes[cube].size, targetTile)]
                          ELSE cubes
              /\ IF a.isMoving
                 THEN \E path \in FindPathReturns(a, TRUE) : avatar' = calculatePath(a, path)
                 ELSE avatar' = a
    /\ UNCHANGED <<queueCalls, pops, previous, grid, tiles, startPosition, goalPosition,
                   isRecalculating, pc, nodes, openList, queue, closedList, closestNode,
                   iterations, result>>

\* the continuation of the callback of a #moveAlongPath call: the next
\* #moveTo, or the end of the reduce
AvatarResume ==
    /\ \E move \in 1..Len(avatar.moves) :
        /\ avatar.moves[move].state = "resumable"
        /\ avatar' = IF avatar.moves[move].waypoint < Len(avatar.moves[move].path)
                     THEN moveTo(avatar, move)
                     ELSE [avatar EXCEPT !.moves[move].state = "complete"]
    /\ UNCHANGED <<queueCalls, pops, previous, grid, tiles, cubes, startPosition, goalPosition,
                   isRecalculating, pc, nodes, openList, queue, closedList, closestNode,
                   iterations, result>>

\* Avatar.update on a tick at which #shouldReachDestination holds; the ticks
\* before it move the avatar towards the target and change no other field
AvatarUpdate ==
    /\ NoMicrotask
    /\ avatar.isMoving
    /\ avatar.targetPosition # NullPoint
    /\ avatar' = handleDestinationReached(avatar)
    /\ UNCHANGED <<queueCalls, pops, previous, grid, tiles, cubes, startPosition, goalPosition,
                   isRecalculating, pc, nodes, openList, queue, closedList, closestNode,
                   iterations, result>>

AvatarNext == TileHandlePointerDown \/ CubeHandleDragMove \/ AvatarResume \/ AvatarUpdate

AvatarSpec == AvatarInit /\ [][AvatarNext]_vars

(***************************************************************************)
(* Vocabulary of the properties.                                           *)
(***************************************************************************)
Path == result.path

ReturnedPath == pc = "done" /\ result.kind = "path"

ReturnedNull == pc = "done" /\ result = NullResult

OutOfBounds(p) ==
    p.x < 0 \/ p.y < 0 \/ p.x >= Len(grid) \/ p.y >= MaxRowLength(grid)

HasNoTile(p) == GridAt(grid, p.x, p.y) = Absent

\* a cell past the end of its own row, within the length of the longest row
PastRowEnd(p) ==
    /\ p.x >= 0 /\ p.x < Len(grid)
    /\ p.y >= Len(grid[p.x + 1]) /\ p.y < MaxRowLength(grid)

\* the cells that have a tile, with the grid's elevation as z
TileCells ==
    {Point3D(c[1], c[2], GridAt(grid, c[1], c[2])) :
        c \in {d \in (0..Len(grid) - 1) \X (0..MaxRowLength(grid) - 1) :
                GridAt(grid, d[1], d[2]) \notin {Absent, Undefined}}}

Adjacent8(a, b) ==
    /\ <<a.x, a.y>> # <<b.x, b.y>>
    /\ Abs(a.x - b.x) <= 1
    /\ Abs(a.y - b.y) <= 1

Diagonal(a, b) == Abs(a.x - b.x) = 1 /\ Abs(a.y - b.y) = 1

CellHasTile(x, y) == GridAt(grid, x, y) \notin {Absent, Undefined}

CellHasCube(x, y) ==
    /\ CellHasTile(x, y)
    /\ \E i \in 1..Len(cubes) :
        cubes[i].currentTile = cartesianToIsometric(Point3D(x, y, GridAt(grid, x, y)))

\* a cell that is tile-absent or occupied by an obstacle
CellBlocked(x, y) == ~CellHasTile(x, y) \/ CellHasCube(x, y)

\* both cells flanking the diagonal step from a to b are blocked
BothFlanksBlocked(a, b) == CellBlocked(b.x, a.y) /\ CellBlocked(a.x, b.y)

\* the tallest obstacle on the cell (the one highest up) is narrower than the avatar
NarrowTopped(p) ==
    \E i \in 1..Len(cubes) :
        /\ cubes[i].currentTile = cartesianToIsometric(p)
        /\ cubes[i].size < AVATAR_WIDTH
        /\ \A j \in 1..Len(cubes) :
            cubes[j].currentTile = cubes[i].currentTile => cubes[j].z <= cubes[i].z

RECURSIVE Closure(_, _)
Closure(S, edges) ==
    LET T == S \cup {e[2] : e \in {d \in edges : d[1] \in S}}
    IN IF T = S THEN S ELSE Closure(T, edges)

\* steps between 8-neighbouring cells that both have a tile
TileEdges == {e \in TileCells \X TileCells : Adjacent8(e[1], e[2])}

\* steps between 8-neighbouring tiles that climb at most two thirds of the
\* avatar's height and do not cut between two tile-less cells (no cubes)
WalkEdges ==
    {e \in TileEdges :
        /\ (e[2].z - e[1].z) * TILE_HEIGHT <= (AVATAR_HEIGHT * 2) \div 3
        /\ Diagonal(e[1], e[2]) =>
            CellHasTile(e[2].x, e[1].y) \/ CellHasTile(e[1].x, e[2].y)}

ClosedPositions == {nodes[c].position : c \in closedList}

GoalExpanded == \E c \in closedList : Equals(nodes[c].position, goalPosition)

PathFromStartToGoal ==
    /\ ReturnedPath
    /\ Len(Path) >= 1
    /\ Path[1] = startPosition
    /\ Path[Len(Path)] = goalPosition

(***************************************************************************)
(* C1: findPath returns null, for either value of isRecalculating and      *)
(* without running a search, when start or goal is out of the grid bounds  *)
(* or on a cell with no tile, or when start equals goal.                   *)
(***************************************************************************)
C1_InvalidEndpointsReturnNull ==
    (/\ pc # "idle"
     /\ \/ OutOfBounds(startPosition) \/ OutOfBounds(goalPosition)
        \/ HasNoTile(startPosition) \/ HasNoTile(goalPosition)
        \/ startPosition = goalPosition)
    => /\ ReturnedNull
       /\ nodes = <<>> /\ openList = {} /\ closedList = {}

C1_Witness ==
    /\ ReturnedNull
    /\ isRecalculating
    /\ isValidTilePosition(startPosition, grid)
    /\ HasNoTile(goalPosition)

C3_RecalculatingFallsBack ==
    (/\ pc = "done"
     /\ isRecalculating
     /\ validateInput(startPosition, goalPosition)
     /\ ~GoalExpanded)
    => /\ ReturnedPath
       /\ Len(Path) >= 1
       /\ Path[1] = startPosition
       /\ Path[Len(Path)] \in ClosedPositions

C3_Witness ==
    /\ ReturnedPath
    /\ isRecalculating
    /\ ~GoalExpanded
    /\ Cardinality(closedList) >= 2
    /\ Path[Len(Path)] # goalPosition

(***************************************************************************)
(* C4: with isRecalculating false, a search whose open list is exhausted   *)
(* without an expanded node at the goal returns null, not a partial path.  *)
(***************************************************************************)
C4_NotRecalculatingReturnsNull ==
    (/\ pc = "done"
     /\ ~isRecalculating
     /\ ~GoalExpanded)
    => result = NullResult

C4_Witness ==
    /\ ReturnedNull
    /\ ~isRecalculating
    /\ Cardinality(closedList) >= 2
    /\ ~GoalExpanded

(***************************************************************************)
(* C5: no returned path has a diagonal step whose two flanking cells are   *)
(* both tile-absent or occupied by an obstacle.                            *)
(***************************************************************************)
C5_NoCornerCutting ==
    ReturnedPath =>
        \A i \in 1..Len(Path) - 1 :
            Diagonal(Path[i], Path[i + 1]) => ~BothFlanksBlocked(Path[i], Path[i + 1])

\* the goal is diagonal to the start behind two blocked flanks, and is reached
\* by another way
C5_Witness ==
    /\ PathFromStartToGoal
    /\ Diagonal(startPosition, goalPosition)
    /\ BothFlanksBlocked(startPosition, goalPosition)
    /\ Len(Path) >= 3

(***************************************************************************)
(* C6: no returned path holds, after its first waypoint, a cell whose      *)
(* tallest obstacle is narrower than the avatar's width.                   *)
(***************************************************************************)
C6_NoNarrowPedestal ==
    ReturnedPath => \A i \in 2..Len(Path) : ~NarrowTopped(Path[i])

\* a path that passes beside a narrow-topped tile
C6_Witness ==
    /\ PathFromStartToGoal
    /\ Len(Path) >= 4
    /\ \E i \in 1..Len(Path), c \in TileCells :
        NarrowTopped(c) /\ Adjacent8(Path[i], c)

(***************************************************************************)
(* C7: on the open 5 by 5 grid with no obstacles, findPath from (0,0,0) to *)
(* (4,4,0), not recalculating, returns (0,0), (1,1), (2,2), (3,3), (4,4).  *)
(***************************************************************************)
C7_OpenGridDiagonal ==
    (/\ pc = "done"
     /\ grid = OpenGrid(5)
     /\ cubes = <<>>
     /\ startPosition = Point3D(0, 0, 0)
     /\ goalPosition = Point3D(4, 4, 0)
     /\ ~isRecalculating)
    => result = PathResult(<< Point3D(0, 0, 0), Point3D(1, 1, 0), Point3D(2, 2, 0),
                              Point3D(3, 3, 0), Point3D(4, 4, 0) >>)

C7_Witness ==
    /\ ReturnedPath
    /\ grid = OpenGrid(5)
    /\ cubes = <<>>
    /\ startPosition = Point3D(0, 0, 0)
    /\ goalPosition = Point3D(4, 4, 0)
    /\ ~isRecalculating

(***************************************************************************)
(* C8: a cell past the end of its own row is treated as absent: rejected   *)
(* as start or goal, never enumerated as a valid neighbour, never in a     *)
(* returned path.                                                          *)
(***************************************************************************)
C8_ShortRowCellsAbsent ==
    /\ (pc # "idle" /\ (PastRowEnd(startPosition) \/ PastRowEnd(goalPosition)))
        => ReturnedNull
    /\ \A n \in 1..Len(nodes) :
        LET neighbors == getNeighborPositions(nodes[n].position)
        IN \A i \in 1..Len(neighbors) : ~PastRowEnd(neighbors[i])
    /\ \A i \in 1..Len(Path) : ~PastRowEnd(Path[i])

\* the walkable cells of the grid Pathfinder's inputs, which carry z = 0
GridWalkableCells ==
    {Point3D(c[1], c[2], 0) :
        c \in {d \in (0..Len(grid) - 1) \X (0..MaxRowLength(grid) - 1) :
                CellHasTile(d[1], d[2])}}

\* steps between 8-neighbouring walkable cells
GridWalkEdges == {e \in GridWalkableCells \X GridWalkableCells : Adjacent8(e[1], e[2])}

GridReachable ==
    /\ startPosition \in GridWalkableCells
    /\ goalPosition \in Closure({startPosition}, GridWalkEdges)

\* the call has returned, or has run more iterations than the grid has
\* walkable cells
GridReturnedOrOverdue ==
    \/ pc = "done"
    \/ pc = "loop" /\ iterations > Cardinality(GridWalkableCells)

(***************************************************************************)
(* C9: the grid Pathfinder's findPath, whenever the goal is reachable from *)
(* start over walkable cells, returns a sequence whose first element is    *)
(* start, whose last is goal and whose consecutive elements are            *)
(* 8-neighbouring walkable cells; a call that is still searching after     *)
(* more iterations than the grid has walkable cells has not returned it.   *)
(***************************************************************************)
C9_GridReachableFound ==
    (/\ pc # "idle"
     /\ GridReachable
     /\ GridReturnedOrOverdue)
    => /\ PathFromStartToGoal
       /\ \A i \in 1..Len(Path) : Path[i] \in GridWalkableCells
       /\ \A i \in 1..Len(Path) - 1 : Adjacent8(Path[i], Path[i + 1])

(***************************************************************************)
(* C10: the grid Pathfinder's findPath, when start and goal are both valid *)
(* tiles and the goal is not reachable from start, returns null; a call    *)
(* that is still searching after more iterations than the grid has         *)
(* walkable cells has not returned it.                                     *)
(***************************************************************************)
C10_GridUnreachableReturnsNull ==
    (/\ pc # "idle"
     /\ startPosition \in GridWalkableCells
     /\ goalPosition \in GridWalkableCells
     /\ ~GridReachable
     /\ GridReturnedOrOverdue)
    => ReturnedNull

\* an open flat grid with no obstacles
OpenFlatGrid == cubes = <<>> /\ \E n \in 2..Len(grid) : grid = OpenGrid(n)

Manhattan(a, b) == Abs(a.x - b.x) + Abs(a.y - b.y)

Chebyshev(a, b) == MaxOf({Abs(a.x - b.x), Abs(a.y - b.y)})

\* this call and the call before, from the same start, both returned a path
TwoPathsReturned == ReturnedPath /\ previous.result.kind = "path"

(***************************************************************************)
(* C11 as stated: on an open flat grid with no obstacles and a fixed       *)
(* start, a goal at least as far from start in Manhattan distance as       *)
(* another goal gets a path with at least as many edges.                   *)
(***************************************************************************)
C11_ManhattanMonotone ==
    (/\ OpenFlatGrid
     /\ TwoPathsReturned
     /\ Manhattan(startPosition, previous.goal) <= Manhattan(startPosition, goalPosition))
    => Len(previous.result.path) - 1 <= Len(Path) - 1

(***************************************************************************)
(* C11 amended: on an open flat grid with no obstacles and a fixed start,  *)
(* a goal at least as far from start in diagonal (Chebyshev) distance      *)
(* max(|dx|, |dy|) as another goal gets a path with at least as many       *)
(* edges.                                                                  *)
(***************************************************************************)
C11_ChebyshevMonotone ==
    (/\ OpenFlatGrid
     /\ TwoPathsReturned
     /\ Chebyshev(startPosition, previous.goal) <= Chebyshev(startPosition, goalPosition))
    => Len(previous.result.path) - 1 <= Len(Path) - 1

\* a nearer goal in Manhattan distance got the longer path
C11_Witness ==
    /\ OpenFlatGrid
    /\ TwoPathsReturned
    /\ Manhattan(startPosition, goalPosition) < Manhattan(startPosition, previous.goal)
    /\ Chebyshev(startPosition, previous.goal) < Chebyshev(startPosition, goalPosition)
    /\ Len(previous.result.path) < Len(Path)

\* a <= b on numbers
NumLessEq(a, b) == a # NaN /\ b # NaN /\ a <= b

\* findPath fell back to the closest node: the open list was exhausted
\* without an expanded node at the goal, with isRecalculating true
FellBack ==
    /\ ReturnedPath
    /\ isRecalculating
    /\ ~GoalExpanded

(***************************************************************************)
(* C12: when findPath falls back to the closest node, the last waypoint of *)
(* the returned path is the position of a node whose fCost is less than or *)
(* equal to the fCost of every node expanded during the search, the start  *)
(* node included.                                                          *)
(***************************************************************************)
C12_FallbackIsLeastFCost ==
    FellBack =>
        \E n \in closedList :
            /\ nodes[n].position = Path[Len(Path)]
            /\ \A c \in closedList : NumLessEq(nodes[n].fCost, nodes[c].fCost)

\* the same, when every expanded node has a number as fCost
C12_FallbackIsLeastFCostOfNumbers ==
    (FellBack /\ \A c \in closedList : nodes[c].fCost # NaN) =>
        \E n \in closedList :
            /\ nodes[n].position = Path[Len(Path)]
            /\ \A c \in closedList : NumLessEq(nodes[n].fCost, nodes[c].fCost)

\* every cell of the grid's extent: the positions a node can have
ExtentCells == (0..Len(grid) - 1) \X (0..MaxRowLength(grid) - 1)

\* what is left to do: each position not yet closed can still be expanded
\* and push its neighbors, each open entry can still be popped
SearchMeasure ==
    (Len(NeighborOffsets) + 1) * (Cardinality(ExtentCells) - Cardinality(ClosedPositions))
    + Cardinality(openList)

\* the loop has a step to take: it ends on an empty open list, and pops a
\* node of a non-empty one
LoopCanStep == openList = {} \/ PopChoices(nodes, openList) # {}

(***************************************************************************)
(* C13: every findPath call terminates: each iteration of the loop either  *)
(* returns or closes a position that was not closed or removes an entry    *)
(* from the open list, so that what is left to do strictly decreases and   *)
(* never goes below zero, although neighbours whose position is already    *)
(* closed are pushed again; and the loop is never stuck before it returns. *)
(***************************************************************************)
C13_FindPathTerminates ==
    /\ [][pc = "loop" => (pc' = "done" \/ SearchMeasure' < SearchMeasure)]_vars
    /\ [](pc = "loop" => (SearchMeasure >= 0 /\ LoopCanStep))

\* a call that ended on an empty open list after skipping stale entries
C13_Witness ==
    /\ pc = "done"
    /\ openList = {}
    /\ ~GoalExpanded
    /\ Len(nodes) > Cardinality(closedList)
    /\ Cardinality(closedList) >= 3

(***************************************************************************)
(* C14: a findPath call leaves the grid, the tiles and the obstacle set    *)
(* (every obstacle's position, size and current tile) unchanged, whatever  *)
(* its outcome.                                                            *)
(***************************************************************************)
C14_CollaboratorsUnchanged ==
    [][grid' = grid /\ tiles' = tiles /\ cubes' = cubes]_vars

\* a call that resolved the height of a node on a cell with a cube and returned
C14_Witness ==
    /\ pc = "done"
    /\ \E c \in closedList :
        LET tallestCubeAtNode == findTallestCubeAt(cartesianToIsometric(nodes[c].position))
        IN /\ tallestCubeAtNode # NullRef
           /\ nodes[c].height = cubes[tallestCubeAtNode].z + cubes[tallestCubeAtNode].size

\* the nodes whose height was resolved: the neighbours at their creation, the
\* start node at its expansion
ResolvedNodes == {n \in 1..Len(nodes) : n # 1 \/ n \in closedList}

\* the tops (z + size) of the obstacles on the cell of p
ObstacleTops(p) ==
    {cubes[i].z + cubes[i].size :
        i \in {j \in 1..Len(cubes) : cubes[j].currentTile = cartesianToIsometric(p)}}

ClimbAllowed(a, b) ==
    NumLessEq(NodeHeight(b), NumAdd(NodeHeight(a), (AVATAR_HEIGHT * 2) \div 3))

(***************************************************************************)
(* C16: for every pair of consecutive waypoints (a, b) of a returned path, *)
(* the resolved height of b does not exceed the resolved height of a plus  *)
(* two thirds of the avatar's height (40); descending steps of any size    *)
(* are allowed.                                                            *)
(***************************************************************************)
C16_NoHighClimb ==
    ReturnedPath =>
        \A i \in 1..Len(Path) - 1 : ClimbAllowed(Path[i], Path[i + 1])

\* the same for the steps between two cells that have a tile
C16_NoHighClimbBetweenTiles ==
    ReturnedPath =>
        \A i \in 1..Len(Path) - 1 :
            (CellHasTile(Path[i].x, Path[i].y) /\ CellHasTile(Path[i + 1].x, Path[i + 1].y))
                => ClimbAllowed(Path[i], Path[i + 1])

\* the positions of the nodes the search expanded and of their neighbor nodes
CurrentAndCandidate ==
    UNION {{<<current, getNeighborPositions(current)[i]>> :
                i \in 1..Len(getNeighborPositions(current))} :
            current \in ClosedPositions}

PoppedLeastFCost ==
    \A n \in closedList' \ closedList :
        \A m \in openList : ~NumLess(nodes[m].fCost, nodes[n].fCost)

\* the costs of an open or closed node: gCost 0, and hCost and fCost the
\* Euclidean distance from its position to the goal
CostsAreDistance(n) ==
    /\ nodes[n].gCost = 0
    /\ nodes[n].hCost # NaN
    /\ nodes[n].hCost = distanceTo(nodes[n].position, goalPosition)
    /\ nodes[n].fCost = nodes[n].hCost

(***************************************************************************)
(* C18: throughout a findPath call every node of the open list and of the  *)
(* closed list has gCost 0 and an fCost equal to its hCost, the Euclidean  *)
(* distance to the goal, and the node an iteration expands is an open node *)
(* of least fCost: nodes are expanded in order of straight-line distance   *)
(* to the goal.                                                            *)
(***************************************************************************)
C18_GreedyBestFirst ==
    /\ [](\A n \in openList \cup closedList : CostsAreDistance(n))
    /\ [][PoppedLeastFCost]_vars

\* C18 for the searches all of whose nodes are on cells that have a tile
C18_GreedyBestFirstOnTiles ==
    /\ []((\A n \in 1..Len(nodes) : CellHasTile(nodes[n].position.x, nodes[n].position.y))
            => \A n \in openList \cup closedList : CostsAreDistance(n))
    /\ [][(\A n \in 1..Len(nodes) : CellHasTile(nodes[n].position.x, nodes[n].position.y))
            => PoppedLeastFCost]_vars

\* every node has gCost 0, also a node on a cell past the end of its row
C18_GCostIsZero == \A n \in 1..Len(nodes) : nodes[n].gCost = 0

\* an open node whose position was closed after the node was pushed
StaleOpenNodes ==
    {n \in openList : \E c \in closedList : nodes[c].position = nodes[n].position}

(***************************************************************************)
(* C19: every position is expanded at most once: the node an iteration     *)
(* adds to the closed list is at a position no closed node has, and the    *)
(* closed list never holds two nodes with the same position.               *)
(***************************************************************************)
C19_ExpandedAtMostOnce ==
    /\ [](\A a, b \in closedList :
            nodes[a].position = nodes[b].position => a = b)
    /\ [][\A n \in closedList' \ closedList :
            nodes[n].position \notin ClosedPositions]_vars

\* a search that expanded three positions and holds a stale open node, which
\* the next pop of it drops
C19_Witness ==
    /\ pc = "loop"
    /\ Cardinality(closedList) >= 3
    /\ StaleOpenNodes # {}

\* C20's case: some open node, once popped, reaches a neighbour position with
\* a tentative gCost strictly lower than the gCost of the open node already
\* at that position
CheaperRouteFound ==
    \E current \in openList :
        \E i \in 1..Len(getNeighborPositions(nodes[current].position)) :
            LET neighborNode ==
                    updateNodeHeight(NewNode(getNeighborPositions(nodes[current].position)[i]))
                existingNode == findExistingNode(nodes, neighborNode, openList)
            IN /\ existingNode # NullRef
               /\ calculateGCost(nodes[current], neighborNode) < nodes[existingNode].gCost

\* no state of a findPath call has that case: every gCost is 0
CheaperRouteNeverFound == ~CheaperRouteFound

\* the second call of ModesSpec, with isRecalculating true, after a first
\* call that returned a path
OtherModeAfterPath ==
    previous # NoCall /\ isRecalculating /\ previous.result.kind = "path"

(***************************************************************************)
(* C21: for the same grid, cubes, start and goal, when findPath with       *)
(* isRecalculating false returns a path, findPath with isRecalculating     *)
(* true goes through the same iterations (at each one the node the first   *)
(* call popped is a node the heap may return) and returns the identical    *)
(* path, which ends at the goal.                                           *)
(***************************************************************************)
C21_SamePathInBothModes ==
    OtherModeAfterPath =>
        /\ pc = "loop" =>
                /\ Len(pops) < Len(previous.pops)
                /\ previous.pops[Len(pops) + 1] \in PopChoices(nodes, openList)
        /\ pc = "done" =>
                /\ result = previous.result
                /\ Len(Path) >= 1
                /\ Equals(Path[Len(Path)], goalPosition)

\* both modes returned a path of three waypoints or more, after a search
\* that popped a stale node
C21_Witness ==
    /\ OtherModeAfterPath
    /\ pc = "done"
    /\ Len(Path) >= 3
    /\ Len(pops) > Cardinality(closedList)

\* the k-th node up the parent links of node n (n itself for k = 0), NullRef
\* past the parentless node
RECURSIVE Ancestor(_, _)
Ancestor(n, k) ==
    IF n = NullRef \/ k = 0 THEN n ELSE Ancestor(nodes[n].parent, k - 1)

\* path lists, last to first, the positions met walking the parent links from
\* node end up to a parentless node
IsParentWalkReversed(path, end) ==
    /\ Len(path) >= 1
    /\ \A k \in 0..Len(path) - 1 :
        /\ Ancestor(end, k) # NullRef
        /\ path[Len(path) - k] = nodes[Ancestor(end, k)].position
    /\ nodes[Ancestor(end, Len(path) - 1)].parent = NullRef

(***************************************************************************)
(* C22: every path findPath returns, to the goal or to the closest node,   *)
(* has the start position as its first element and lists the waypoints     *)
(* parent before child: it is the reverse of the walk over the parent      *)
(* links from the end node to the parentless start node.                   *)
(***************************************************************************)
C22_PathStartsAtStart ==
    ReturnedPath =>
        /\ Path[1] = startPosition
        /\ \E end \in closedList :
            /\ IsParentWalkReversed(Path, end)
            /\ Ancestor(end, Len(Path) - 1) = 1
            /\ IF GoalExpanded THEN Equals(nodes[end].position, goalPosition)
               ELSE end = closestNode

\* a returned path to the closest node, which is not the start node
C22_Witness ==
    /\ ReturnedPath
    /\ Len(Path) >= 2
    /\ ~GoalExpanded
    /\ Path[Len(Path)] # goalPosition

(***************************************************************************)
(* C23: once a node is in the closed list it stays there, and its gCost,   *)
(* hCost, fCost, parent and height are the same in every later step of the *)
(* findPath call.                                                          *)
(***************************************************************************)
C23_ClosedNodesImmutable ==
    [][\A n \in closedList :
        /\ n \in closedList'
        /\ nodes'[n].gCost = nodes[n].gCost
        /\ nodes'[n].hCost = nodes[n].hCost
        /\ nodes'[n].fCost = nodes[n].fCost
        /\ nodes'[n].parent = nodes[n].parent
        /\ nodes'[n].height = nodes[n].height]_vars

\* a search that closed three nodes, one of them on a cell with a cube, and
\* went on to push a node at the position of a closed one
C23_Witness ==
    /\ pc = "loop"
    /\ Cardinality(closedList) >= 3
    /\ StaleOpenNodes # {}
    /\ \E n \in closedList : CellHasCube(nodes[n].position.x, nodes[n].position.y)

\* the values enqueued and not yet dequeued
Pending == (1..Len(queueCalls.priorities)) \ queueCalls.removed

\* value v goes before value w: the smaller priority, and among equal
\* priorities the one enqueued earlier
GoesBefore(v, w) ==
    \/ queueCalls.priorities[v] < queueCalls.priorities[w]
    \/ queueCalls.priorities[v] = queueCalls.priorities[w] /\ v < w

(***************************************************************************)
(* C24: PriorityQueue.dequeue returns the value of smallest priority       *)
(* number among the values enqueued and not yet dequeued, the earliest     *)
(* enqueued among those of equal priority, and null when the queue is      *)
(* empty; after any sequence of calls the number of queued elements is the *)
(* number of enqueues minus the number of dequeues that returned a value.  *)
(***************************************************************************)
C24_DequeueReturnsLeast ==
    /\ [][queueCalls'.dequeues # queueCalls.dequeues =>
            IF Pending = {}
            THEN queueCalls'.returned = NullRef /\ queueCalls'.removed = queueCalls.removed
            ELSE /\ queueCalls'.returned \in Pending
                 /\ \A w \in Pending \ {queueCalls'.returned} :
                        GoesBefore(queueCalls'.returned, w)]_vars
    /\ [](Len(queue) = Len(queueCalls.priorities) - Cardinality(queueCalls.removed))

\* after an earlier dequeue that returned a value, a dequeue returned the
\* earlier of two values of equal priority, enqueued after a value of greater
\* priority that is still queued
C24_Witness ==
    /\ queueCalls.returned # NullRef
    /\ \E w \in Pending :
        /\ queueCalls.priorities[w] = queueCalls.priorities[queueCalls.returned]
        /\ queueCalls.returned < w
    /\ \E u \in Pending :
        /\ u < queueCalls.returned
        /\ queueCalls.priorities[u] > queueCalls.priorities[queueCalls.returned]
    /\ queueCalls.removed # {queueCalls.returned}

\* the node findPath has for a cell once its height is resolved
ResolvedNodeAt(p) == updateNodeHeight(NewNode(p))

\* steps to an 8-neighbouring tile cell that neither isObstacle nor
\* isPathObstructed rejects
AcceptedEdges ==
    {e \in TileEdges :
        /\ ~isObstacle(ResolvedNodeAt(e[2]), ResolvedNodeAt(e[1]))
        /\ ~isPathObstructed(ResolvedNodeAt(e[2]), ResolvedNodeAt(e[1]))}

(***************************************************************************)
(* C25: when a sequence of steps leads from start to goal, each to an      *)
(* 8-neighbouring tile cell and rejected by neither isObstacle nor         *)
(* isPathObstructed, the findPath call, in either mode, returns a path     *)
(* from start whose last element is the goal, never null and never a path  *)
(* that ends elsewhere.                                                    *)
(***************************************************************************)
C25_AcceptedChainFound ==
    (/\ pc = "done"
     /\ startPosition \in TileCells
     /\ startPosition # goalPosition
     /\ goalPosition \in Closure({startPosition}, AcceptedEdges))
    => PathFromStartToGoal

\* a goal found among cubes, around a step that isObstacle or
\* isPathObstructed rejects, in a call that is recalculating
C25_Witness ==
    /\ PathFromStartToGoal
    /\ isRecalculating
    /\ cubes # <<>>
    /\ Len(Path) >= 3
    /\ <<startPosition, goalPosition>> \in TileEdges \ AcceptedEdges

(***************************************************************************)
(* C26: in every path findPath returns, consecutive waypoints are distinct *)
(* 8-neighbours, and every waypoint is an in-bounds cell that has a tile,  *)
(* with the grid's elevation of the cell as its z.                         *)
(***************************************************************************)
C26_WaypointsAreAdjacentTiles ==
    ReturnedPath =>
        /\ \A i \in 1..Len(Path) - 1 : Adjacent8(Path[i], Path[i + 1])
        /\ \A i \in 1..Len(Path) : Path[i] \in TileCells

\* C26 with the cells past the end of a short row let through
C26_WaypointsAreAdjacentCells ==
    ReturnedPath =>
        /\ \A i \in 1..Len(Path) - 1 : Adjacent8(Path[i], Path[i + 1])
        /\ \A i \in 1..Len(Path) :
            \/ Path[i] \in TileCells
            \/ PastRowEnd(Path[i]) /\ Path[i].z = Undefined

\* the node references up the parent links of node n, n included
RECURSIVE Ancestors(_, _)
Ancestors(n, seen) ==
    IF n = NullRef \/ n \in seen THEN seen
    ELSE Ancestors(nodes[n].parent, seen \cup {n})

\* the parent links from node n end at the start node without passing a node
\* twice: every parent was created before its child
ParentWalkEndsAtStart(n) ==
    /\ 1 \in Ancestors(n, {})
    /\ nodes[1].parent = NullRef
    /\ \A a \in Ancestors(n, {}) \ {1} :
        nodes[a].parent # NullRef /\ nodes[a].parent < a

(***************************************************************************)
(* C27: every path findPath returns is simple, no cell position occurs     *)
(* twice in it, and the parent links of every node created during a search *)
(* are acyclic and end at the start node.                                  *)
(***************************************************************************)
C27_PathsAreSimple ==
    /\ ReturnedPath =>
            \A i, j \in 1..Len(Path) :
                (Path[i].x = Path[j].x /\ Path[i].y = Path[j].y) => i = j
    /\ pc \in {"loop", "done"} =>
            \A n \in 1..Len(nodes) : ParentWalkEndsAtStart(n)

\* a returned path of three waypoints whose search pushed the position of a
\* closed node again
C27_Witness ==
    /\ ReturnedPath
    /\ Len(Path) >= 3
    /\ Len(nodes) > Cardinality({nodes[n].position : n \in 1..Len(nodes)})

\* p names a cell that is in bounds and has a tile, with a z that is not the
\* grid's elevation of the cell
WrongElevation(p) ==
    /\ ~OutOfBounds(p)
    /\ CellHasTile(p.x, p.y)
    /\ p.z # GridAt(grid, p.x, p.y)

(***************************************************************************)
(* C28: findPath returns null, without running a search, when the z of     *)
(* start or of goal differs from the grid's elevation of its cell, also    *)
(* when that cell is in bounds and has a tile.                             *)
(***************************************************************************)
C28_WrongElevationReturnsNull ==
    (/\ pc # "idle"
     /\ WrongElevation(startPosition) \/ WrongElevation(goalPosition))
    => /\ ReturnedNull
       /\ nodes = <<>> /\ openList = {} /\ closedList = {}

\* a recalculating call from a valid start that has a neighbouring tile, to
\* a goal one level above the tile of its cell, returned null
C28_Witness ==
    /\ ReturnedNull
    /\ isRecalculating
    /\ isValidTilePosition(startPosition, grid)
    /\ WrongElevation(goalPosition)
    /\ Closure({startPosition}, TileEdges) # {startPosition}

\* a #moveTo call was made in this step
MoveToRan ==
    \E move \in 1..Len(avatar.moves) :
        avatar'.moves[move].waypoint # avatar.moves[move].waypoint

\* the avatar reached its destination in this step: the pending promise of a
\* #moveTo call was resolved
DestinationReached ==
    \E move \in 1..Len(avatar.moves) :
        avatar.moves[move].state = "awaiting" /\ avatar'.moves[move].state = "resumable"

(***************************************************************************)
(* C29: between two runs of code the avatar's movement state is            *)
(* consistent: isMoving is true exactly when a target position is set, and *)
(* exactly when a movement-completion callback is set; moveTo sets all     *)
(* three and reaching the destination clears all three.                    *)
(***************************************************************************)
C29_MovementStateConsistent ==
    /\ [](/\ avatar.isMoving <=> avatar.targetPosition # NullPoint
          /\ avatar.isMoving <=> avatar.onMovementComplete # NullRef)
    /\ [][/\ MoveToRan =>
                /\ avatar'.isMoving
                /\ avatar'.targetPosition # NullPoint
                /\ avatar'.onMovementComplete # NullRef
          /\ DestinationReached =>
                /\ ~avatar'.isMoving
                /\ avatar'.targetPosition = NullPoint
                /\ avatar'.onMovementComplete = NullRef]_vars

\* the avatar stands at the end of a path of three waypoints, and the cube
\* was dragged to another tile
C29_Witness ==
    /\ ~avatar.isMoving
    /\ \E move \in 1..Len(avatar.moves) :
        /\ avatar.moves[move].state = "complete"
        /\ Len(avatar.moves[move].path) = 3
    /\ cubes[1].currentTile # cartesianToIsometric(Point3D(1, 1, 0))

\* a #moveAlongPath call that still has a #moveTo call awaiting or waypoints
\* left
StillFollowed(move) ==
    avatar.moves[move].state # "complete"

(***************************************************************************)
(* C30: once calculatePath obtained a path while an earlier path was still *)
(* followed, the completion callback is that of the newest path's moveTo   *)
(* calls, the promise the earlier path's moveTo awaits is never resolved,  *)
(* and no further waypoint of the earlier path becomes the target: only    *)
(* the newest path drives the avatar.                                      *)
(***************************************************************************)
C30_OnlyNewestPathDrives ==
    /\ [](NoMicrotask => avatar.onMovementComplete \in {NullRef, Len(avatar.moves)})
    /\ [][\A move \in 1..Len(avatar.moves) :
            move < Len(avatar'.moves) => avatar'.moves[move] = avatar.moves[move]]_vars

\* the newest path was followed to its end while the earlier path, obtained
\* before it, still had a moveTo call awaiting and a waypoint left
C30_Witness ==
    /\ Len(avatar.moves) = 2
    /\ avatar.moves[1].state = "awaiting"
    /\ avatar.moves[1].waypoint >= 1
    /\ avatar.moves[1].waypoint < Len(avatar.moves[1].path)
    /\ avatar.moves[2].state = "complete"
    /\ Len(avatar.moves[2].path) >= 2

====
